---- MODULE Spec2Model ----
(***************************************************************************)
(* A model of dprisk.cpp: the brute-force enumeration of the dice          *)
(* transition counts (calc_transitions / create_prob_table), the Monte     *)
(* Carlo battle (simulate_battle) and main() with its relaxation loop      *)
(* over the win-probability grid (update_elements).                        *)
(*                                                                         *)
(* Doubles are modelled by exact rationals num / uniform_dice_sides^exp    *)
(* whose numerator is an unbounded natural kept as a little-endian         *)
(* sequence of base-BigBase digits.  C++ vectors are 0-based; the          *)
(* sequences that model probstable rows, transitions and dicetuples are    *)
(* 1-based (code index i is model index i + 1), while the grid P keeps    *)
(* the code's 0-based linear index.                                        *)
(***************************************************************************)
EXTENDS Integers, Sequences, FiniteSets, TLC

\* ------------------------------------------------------------------ bounds
MaxA == 6
MaxD == 5
MaxN == 2
MaxSides == 6

\* ------------------------------------------------------ program constants
uniform_dice_sides == 6
BigBase == 10000

Min(x, y) == IF x < y THEN x ELSE y
Max(x, y) == IF x > y THEN x ELSE y

RECURSIVE Pow(_, _)
Pow(b, e) == IF e = 0 THEN 1 ELSE b * Pow(b, e - 1)

\* ------------------------------------------- naturals of unbounded size
RECURSIVE Big(_)
Big(n) == IF n = 0 THEN <<>> ELSE <<n % BigBase>> \o Big(n \div BigBase)

RECURSIVE BigAddC(_, _, _)
BigAddC(x, y, c) ==
  IF x = <<>> /\ y = <<>>
  THEN Big(c)
  ELSE LET dx == IF x = <<>> THEN 0 ELSE Head(x)
           dy == IF y = <<>> THEN 0 ELSE Head(y)
           tx == IF x = <<>> THEN <<>> ELSE Tail(x)
           ty == IF y = <<>> THEN <<>> ELSE Tail(y)
           s  == dx + dy + c
       IN  <<s % BigBase>> \o BigAddC(tx, ty, s \div BigBase)

BigAdd(x, y) == BigAddC(x, y, 0)

RECURSIVE BigMulC(_, _, _)
BigMulC(x, k, c) ==
  IF x = <<>>
  THEN Big(c)
  ELSE LET s == Head(x) * k + c
       IN  <<s % BigBase>> \o BigMulC(Tail(x), k, s \div BigBase)

\* x * k for a small factor 0 <= k < 100000
BigMulSmall(x, k) == IF k = 0 THEN <<>> ELSE BigMulC(x, k, 0)

RECURSIVE BigScale(_, _)
BigScale(x, e) ==
  IF e = 0 THEN x ELSE BigScale(BigMulSmall(x, uniform_dice_sides), e - 1)

RECURSIVE BigLess(_, _)
BigLess(x, y) ==
  IF Len(x) # Len(y)
  THEN Len(x) < Len(y)
  ELSE IF x = <<>>
       THEN FALSE
       ELSE LET n == Len(x)
            IN  IF x[n] # y[n]
                THEN x[n] < y[n]
                ELSE BigLess(SubSeq(x, 1, n - 1), SubSeq(y, 1, n - 1))

\* ------------------------------------------------------------- doubles
\* (-1)^neg * num / uniform_dice_sides^exp
Rat(neg, num, exp) == [neg |-> neg, num |-> num, exp |-> exp]

Zero == Rat(FALSE, <<>>, 0)
One == Rat(FALSE, Big(1), 0)
unused_value == Rat(TRUE, Big(1), 0)

\* numerator of x over the denominator uniform_dice_sides^e, e >= x.exp
Scaled(x, e) == BigScale(x.num, e - x.exp)

RatIsZero(x) == x.num = <<>>

RatEq(x, y) ==
  LET e == Max(x.exp, y.exp)
  IN  /\ Scaled(x, e) = Scaled(y, e)
      /\ (x.neg = y.neg \/ RatIsZero(x))

RatLess(x, y) ==
  LET e  == Max(x.exp, y.exp)
      sx == Scaled(x, e)
      sy == Scaled(y, e)
      nx == x.neg /\ ~RatIsZero(x)
      ny == y.neg /\ ~RatIsZero(y)
  IN  IF nx /\ ~ny THEN TRUE
      ELSE IF ~nx /\ ny THEN FALSE
      ELSE IF nx THEN BigLess(sy, sx)
      ELSE BigLess(sx, sy)

RatLeq(x, y) == RatLess(x, y) \/ RatEq(x, y)

\* this_val >= 0.0
RatGeqZero(x) == ~x.neg \/ RatIsZero(x)

\* x + y for x, y >= 0: every sum the program forms has a resolved cell or a
\* partial sum of such products on both sides
RatAdd(x, y) ==
  LET e == Max(x.exp, y.exp)
  IN  Rat(FALSE, BigAdd(Scaled(x, e), Scaled(y, e)), e)

\* the exponent e with uniform_dice_sides^e = n
LogSides(n) == CHOOSE e \in 0..5 : Pow(uniform_dice_sides, e) = n

\* a table probability count / tdenom, kept as the pair the division is given
Prob(count, tdenom) == [num |-> count, den |-> tdenom]

\* the loop of line 371 without the skip of zero probabilities
ProbIsZero_never(p) == FALSE

\* prob_qi == 0
ProbIsZero(p) == p.num = 0

\* prob_qi * data[idx], for data[idx] >= 0
RatMulProb(p, x) ==
  Rat(x.neg, BigMulSmall(x.num, p.num), x.exp + LogSides(p.den))

\* ---------------------------------------------------- dice allocation
\* return (q < 0 ? 0 : q)
ClampZero(q) == IF q < 0 THEN 0 ELSE q

attacker_dice(a) == ClampZero(IF a - 1 < 3 THEN a - 1 ELSE 3)

\* defender_dice with the comparison's branches exchanged: max(d, 2)
defender_dice_max(d) == ClampZero(IF d < 2 THEN 2 ELSE d)

defender_dice(d) == ClampZero(IF d < 2 THEN d ELSE 2)

\* if (a > b) swap a, b      if (b > c) swap b, c
SwapAB(abc) == IF abc[1] > abc[2] THEN <<abc[2], abc[1], abc[3]>> ELSE abc
SwapBC(abc) == IF abc[2] > abc[3] THEN <<abc[1], abc[3], abc[2]>> ELSE abc

\* sort_three without its third comparison
sort_three_two_swaps(a, b, c) == SwapBC(SwapAB(<<a, b, c>>))

sort_three(a, b, c) == SwapAB(SwapBC(SwapAB(<<a, b, c>>)))

\* ----------------------------------------------------- tables of 298, 301
dicetuples == << <<1, 1>>, <<2, 1>>, <<3, 1>>, <<1, 2>>, <<2, 2>>, <<3, 2>> >>

transitions == << <<-2, 0>>, <<-1, -1>>, <<-1, 0>>, <<0, -1>>, <<0, -2>> >>

\* std::map built by M[key] = i for i = 0, 1, ...: a later entry overwrites an
\* earlier one, and operator[] on an absent key inserts and returns 0
\* (model index 1)
LastOrDefault(hits) ==
  IF hits = {} THEN 1 ELSE CHOOSE i \in hits : \A j \in hits : j <= i

MapIndex(keys, key) == LastOrDefault({i \in 1..Len(keys) : keys[i] = key})

\* ------------------------------------------------------ simulate_battle
RECURSIVE InsertDesc(_, _)
InsertDesc(x, s) ==
  IF s = <<>> THEN <<x>>
  ELSE IF x >= Head(s) THEN <<x>> \o s
  ELSE <<Head(s)>> \o InsertDesc(x, Tail(s))

\* std::sort(begin, end, std::greater<int>())
RECURSIVE SortDesc(_)
SortDesc(s) == IF s = <<>> THEN <<>> ELSE InsertDesc(Head(s), SortDesc(Tail(s)))

\* one iteration of the while loop on the rolled dice: the change of (a, d)
RoundDelta(a_dice, d_dice) ==
  LET na   == Len(a_dice)
      nd   == Len(d_dice)
      sa   == SortDesc(a_dice)
      sd   == SortDesc(d_dice)
      num_compares == IF na > nd THEN nd ELSE na
      won  == Cardinality({i \in 1..num_compares : sa[i] > sd[i]})
  IN  <<0 - (num_compares - won), 0 - won>>

\* the loop test with a > 0 in place of a > 1
BattleContinues_from_zero(a, d) == a > 0 /\ d > 0

\* while (a > 1 && d > 0)
BattleContinues(a, d) == a > 1 /\ d > 0

\* ----------------------------------------------------- calc_transitions
\* Each branch gives the keys whose counter one joint roll increments, in the
\* order of the branch's if statements.
When(c, key) == IF c THEN <<key>> ELSE <<>>

Branch11(i, p) ==
  When(i > p, <<0, -1>>) \o When(i <= p, <<-1, 0>>)

\* the two ifs of the (2, 1) and (3, 1) branches on the attacker's maximum
OneDefender(ijkmax, p) ==
  When(ijkmax > p, <<0, -1>>) \o When(ijkmax <= p, <<-1, 0>>)

Branch21(i, j, p) == OneDefender(Max(i, j), p)

Branch31(i, j, k, p) == OneDefender(Max(k, Max(i, j)), p)

OneAttacker(i, pqmax) ==
  When(pqmax >= i, <<-1, 0>>) \o When(pqmax < i, <<0, -1>>)

Branch12(i, p, q) == OneAttacker(i, Max(p, q))

\* the four ifs of the (2, 2) branch
FourWay22(ijmax, ijmin, pqmax, pqmin) ==
  When(ijmax > pqmax /\ ijmin > pqmin, <<0, -2>>)
    \o When(ijmax <= pqmax /\ ijmin > pqmin, <<-1, -1>>)
    \o When(ijmax > pqmax /\ ijmin <= pqmin, <<-1, -1>>)
    \o When(ijmax <= pqmax /\ ijmin <= pqmin, <<-2, 0>>)

Branch22(i, j, p, q) == FourWay22(Max(i, j), Min(i, j), Max(p, q), Min(p, q))

\* if (ijk[0] != ijkmin || ijk[2] != ijkmax) break;
BreakCond(i, j, k) ==
  \/ sort_three(i, j, k)[1] # Min(k, Min(i, j))
  \/ sort_three(i, j, k)[3] # Max(k, Max(i, j))

\* the four ifs of the (3, 2) branch
FourWay32(ijkmax, ijkmid, pqmax, pqmin) ==
  When(ijkmax > pqmax /\ ijkmid > pqmin, <<0, -2>>)
    \o When(ijkmax <= pqmax /\ ijkmid > pqmin, <<-1, -1>>)
    \o When(ijkmax > pqmax /\ ijkmid <= pqmin, <<-1, -1>>)
    \o When(ijkmax <= pqmax /\ ijkmid <= pqmin, <<-2, 0>>)

\* the (3, 2) branch with the attacker's minimum in place of the median
Branch32_min(i, j, k, p, q) ==
  FourWay32(Max(k, Max(i, j)), sort_three(i, j, k)[1], Max(p, q), Min(p, q))

Branch32(i, j, k, p, q) ==
  FourWay32(Max(k, Max(i, j)), sort_three(i, j, k)[2], Max(p, q), Min(p, q))

\* the branch taken for (na, nd) on the loop variables t = <<i[, j[, k]], p[, q]>>
TupleIncs(na, nd, t) ==
  CASE na = 1 /\ nd = 1 -> Branch11(t[1], t[2])
    [] na = 2 /\ nd = 1 -> Branch21(t[1], t[2], t[3])
    [] na = 3 /\ nd = 1 -> Branch31(t[1], t[2], t[3], t[4])
    [] na = 1 /\ nd = 2 -> Branch12(t[1], t[2], t[3])
    [] na = 2 /\ nd = 2 -> Branch22(t[1], t[2], t[3], t[4])
    [] na = 3 /\ nd = 2 -> Branch32(t[1], t[2], t[3], t[4], t[5])
    [] OTHER -> <<>>

\* the loop nest as an odometer: the last variable runs fastest; <<>> when the
\* outermost loop ends
RECURSIVE Incr(_, _)
Incr(t, S) ==
  IF t = <<>> THEN <<>>
  ELSE LET n == Len(t)
       IN  IF t[n] < S
           THEN [t EXCEPT ![n] = @ + 1]
           ELSE LET r == Incr(SubSeq(t, 1, n - 1), S)
                IN  IF r = <<>> THEN <<>> ELSE Append(r, 1)

\* after break leaves the k loop of the (3, 2) branch: the next j
AfterBreak(t, S) ==
  LET r == Incr(SubSeq(t, 1, 2), S)
  IN  IF r = <<>> THEN <<>> ELSE r \o <<1, 1, 1>>

\* the break is tested at the top of the k loop's body, before p and q start
BreaksAt(na, nd, t) ==
  /\ na = 3 /\ nd = 2
  /\ t[4] = 1 /\ t[5] = 1
  /\ BreakCond(t[1], t[2], t[3])

RECURSIVE SumSeq(_)
SumSeq(s) == IF s = <<>> THEN 0 ELSE Head(s) + SumSeq(Tail(s))

\* counts[M[key]] += 1 for each key of incs
RECURSIVE AddCounts(_, _)
AddCounts(counts, incs) ==
  IF incs = <<>> THEN counts
  ELSE AddCounts([counts EXCEPT ![MapIndex(transitions, Head(incs))] = @ + 1],
                 Tail(incs))

ZeroCounts == [q \in 1..Len(transitions) |-> 0]

\* the joint rolls calc_transitions reaches: all of them, but for those after a
\* break in the same k loop
Enumerated(na, nd, S) ==
  IF <<na, nd>> \notin {dicetuples[x] : x \in 1..Len(dicetuples)}
  THEN {}
  ELSE {t \in [1..(na + nd) -> 1..S] :
          (na = 3 /\ nd = 2) => \A k \in 1..t[3] : ~BreakCond(t[1], t[2], k)}

\* the counters one joint roll increments: M[key] for each key of incs
RECURSIVE Counters(_)
Counters(incs) ==
  IF incs = <<>> THEN <<>>
  ELSE <<MapIndex(transitions, Head(incs))>> \o Counters(Tail(incs))

\* how often counter q occurs in cs
Occurs(cs, q) == Cardinality({n \in 1..Len(cs) : cs[n] = q})

\* the joint rolls grouped by the counters they increment: each group with
\* the number of rolls in it
Groups(na, nd, S) ==
  {<<cs, Cardinality({t \in Enumerated(na, nd, S) :
                        Counters(TupleIncs(na, nd, t)) = cs})>> :
     cs \in {Counters(TupleIncs(na, nd, t)) : t \in Enumerated(na, nd, S)}}

RECURSIVE Total(_, _)
Total(groups, q) ==
  IF groups = {} THEN 0
  ELSE Total(groups \ {CHOOSE g \in groups : TRUE}, q)
         + (CHOOSE g \in groups : TRUE)[2]
             * Occurs((CHOOSE g \in groups : TRUE)[1], q)

CountsOf(groups) ==
  [q \in 1..Len(transitions) |-> Total(groups, q)]

\* calc_transitions as a whole: the counts and the returned O
calc_transitions(na, nd, S) ==
  IF S < 2
  THEN [counts |-> <<>>, O |-> 0]
  ELSE [counts |-> CountsOf(Groups(na, nd, S)),
        O |-> Cardinality(Enumerated(na, nd, S))]

\* lines 316-331 on calc_transitions' result r: the row pushed, and whether
\* the loop goes on
TableRow(r) ==
  IF r.O = 0
  THEN [row |-> <<>>, ok |-> FALSE]
  ELSE [row |-> <<Prob(r.counts[1], r.O), Prob(r.counts[2], r.O),
                  Prob(r.counts[3], r.O), Prob(r.counts[4], r.O),
                  Prob(r.counts[5], r.O)>>,
        ok  |-> r.counts[1] + r.counts[2] + r.counts[3] + r.counts[4]
                  + r.counts[5] = r.O]

\* the six iterations of create_prob_table's loop, had none returned false
TableRows(S) ==
  <<TableRow(calc_transitions(1, 1, S)), TableRow(calc_transitions(2, 1, S)),
    TableRow(calc_transitions(3, 1, S)), TableRow(calc_transitions(1, 2, S)),
    TableRow(calc_transitions(2, 2, S)), TableRow(calc_transitions(3, 2, S))>>

\* create_prob_table: the loop stops at the first iteration that is not ok; the
\* row is pushed before the check of line 330, not before that of line 316
TableKept(rows, stop) ==
  [ok |-> FALSE,
   probstable |-> [x \in 1..(IF rows[stop].row = <<>> THEN stop - 1 ELSE stop)
                     |-> rows[x].row]]

TableStop(rows, bad) ==
  IF bad = {}
  THEN [ok |-> TRUE, probstable |-> [x \in 1..Len(rows) |-> rows[x].row]]
  ELSE TableKept(rows, CHOOSE x \in bad : \A y \in bad : x <= y)

TableOf(rows) == TableStop(rows, {x \in 1..Len(rows) : ~rows[x].ok})

create_prob_table(S) == TableOf(TableRows(S))

\* the table main() builds, for the fixed uniform_dice_sides
MainTable == create_prob_table(uniform_dice_sides)

\* ================================================================ state
VARIABLES
  pc,            \* position in main / simulate_battle / create_prob_table
  argc, argv,    \* argv[n]: what strtol gives for argument n
  A, D, N,
  i, atk_win, num_atk_wins, \* main's simulation loop
  a, d,                     \* simulate_battle's own a and d
  P,                        \* the grid, by linear index 0 .. sz - 1
  probstable,
  cell, num_updated,        \* update_elements: place in the loop nest, count
  elems_total, passes,
  reads,                    \* history: what the last scanned cell looked up
  out, status,              \* what was printed, and the exit status
  S, t, dice, counts, O,    \* create_prob_table / calc_transitions
  last, inc,                \* history: the last joint roll and its increments
  ok

mainVars == <<argc, argv, A, D, N, i, atk_win, num_atk_wins, P, cell, num_updated,
              elems_total, passes, reads, out, status>>
simVars  == <<a, d>>
enumVars == <<S, t, dice, counts, O, last, inc, ok>>
vars     == <<pc, mainVars, simVars, enumVars, probstable>>

NoReads == [skipped |-> TRUE, a |-> 0, d |-> 0, na |-> 0, nd |-> 0, targets |-> <<>>]

MainIdle ==
  /\ argc = 0 /\ argv = <<>> /\ N = 0 /\ i = 0 /\ atk_win = 0
  /\ num_atk_wins = 0
  /\ P = <<>> /\ cell = 0 /\ num_updated = 0 /\ elems_total = 0 /\ passes = 0
  /\ reads = NoReads /\ out = "none" /\ status = -1

SimIdle == a = 0 /\ d = 0

EnumIdle ==
  /\ S = uniform_dice_sides /\ t = 0 /\ dice = <<>> /\ counts = <<>> /\ O = 0
  /\ last = <<>> /\ inc = <<>> /\ ok = "none"

\* ================================================================= main
linear_index(aa, AA, dd, DD) == (1 + AA) * dd + aa

\* the boundary conditions with the loop of line 455 started at i = 1, as the
\* header comment has it
SetBoundary_column_from_one(AA, DD) ==
  [k \in 0..((1 + AA) * (1 + DD) - 1) |->
     LET ka == k % (1 + AA)
         kd == k \div (1 + AA)
     IN  IF ka \in 1..AA /\ kd = 0 THEN One
         ELSE IF ka \in {0, 1} /\ kd \in 0..DD THEN Zero
         ELSE unused_value]

\* the boundary conditions with the loop of line 450 started at j = 1
SetBoundary_rows_from_one(AA, DD) ==
  [k \in 0..((1 + AA) * (1 + DD) - 1) |->
     LET ka == k % (1 + AA)
         kd == k \div (1 + AA)
     IN  IF ka \in 2..AA /\ kd = 0 THEN One
         ELSE IF ka \in {0, 1} /\ kd \in 1..DD THEN Zero
         ELSE unused_value]

\* lines 439-457: the sentinel fill, then the boundary conditions
SetBoundary(AA, DD) ==
  [k \in 0..((1 + AA) * (1 + DD) - 1) |->
     LET ka == k % (1 + AA)
         kd == k \div (1 + AA)
     IN  IF ka \in 2..AA /\ kd = 0 THEN One
         ELSE IF ka \in {0, 1} /\ kd \in 0..DD THEN Zero
         ELSE unused_value]

\* if (N >= 1)
SimulationMode(n) == n >= 1

Exit(code, text) ==
  /\ pc' = "exit"
  /\ status' = code
  /\ out' = text

\* lines 404-407
Usage ==
  /\ pc = "start"
  /\ argc # 3 /\ argc # 4
  /\ Exit(1, "usage")
  /\ UNCHANGED <<argc, argv, A, D, N, i, atk_win, num_atk_wins, P, cell, num_updated,
                 elems_total, passes, reads, simVars, enumVars, probstable>>

\* lines 409-419
ParseArgs ==
  /\ pc = "start"
  /\ argc = 3 \/ argc = 4
  /\ A' = argv[1]
  /\ D' = argv[2]
  /\ N' = IF argc > 3 THEN argv[3] ELSE 0
  /\ pc' = "validate"
  /\ UNCHANGED <<argc, argv, i, atk_win, num_atk_wins, P, cell, num_updated,
                 elems_total, passes, reads, out, status, simVars, enumVars,
                 probstable>>

\* lines 421-424
RejectAD ==
  /\ pc = "validate"
  /\ A < 2 \/ D < 1
  /\ Exit(1, "requiring")
  /\ UNCHANGED <<argc, argv, A, D, N, i, atk_win, num_atk_wins, P, cell, num_updated,
                 elems_total, passes, reads, simVars, enumVars, probstable>>

\* lines 426-428: simulation mode is entered
StartSim ==
  /\ pc = "validate"
  /\ ~(A < 2 \/ D < 1)
  /\ SimulationMode(N)
  /\ num_atk_wins' = 0
  /\ i' = 0
  /\ pc' = "sim"
  /\ UNCHANGED <<argc, argv, A, D, N, atk_win, P, cell, num_updated, elems_total,
                 passes, reads, out, status, simVars, enumVars, probstable>>

\* lines 428-431: one battle; simulate_battle returns d == 0 ? 1 : 0 and both
\* results have rolls that give them
SimBattle ==
  /\ pc = "sim"
  /\ i < N
  /\ atk_win' \in {0, 1}
  /\ num_atk_wins' = num_atk_wins + atk_win'
  /\ i' = i + 1
  /\ UNCHANGED <<pc, argc, argv, A, D, N, P, cell, num_updated, elems_total,
                 passes, reads, out, status, simVars, enumVars, probstable>>

\* lines 432-433
SimPrint ==
  /\ pc = "sim"
  /\ ~(i < N)
  /\ Exit(0, "fraction")
  /\ UNCHANGED <<argc, argv, A, D, N, i, atk_win, num_atk_wins, P, cell, num_updated,
                 elems_total, passes, reads, simVars, enumVars, probstable>>

\* lines 436-457
InitGrid ==
  /\ pc = "validate"
  /\ ~(A < 2 \/ D < 1)
  /\ ~SimulationMode(N)
  /\ P' = SetBoundary(A, D)
  /\ pc' = "table"
  /\ UNCHANGED <<argc, argv, A, D, N, i, atk_win, num_atk_wins, cell, num_updated,
                 elems_total, passes, reads, out, status, simVars, enumVars,
                 probstable>>

\* lines 459-471
BuildTable ==
  /\ pc = "table"
  /\ \E r \in {MainTable} :
       /\ probstable' = r.probstable
       /\ IF ~r.ok
          THEN /\ Exit(1, "prob table computation failed")
               /\ UNCHANGED <<elems_total, passes>>
          ELSE /\ elems_total' = 0
               /\ passes' = 0
               /\ pc' = "relax"
               /\ UNCHANGED <<out, status>>
  /\ UNCHANGED <<argc, argv, A, D, N, i, atk_win, num_atk_wins, P, cell,
                 num_updated, reads, simVars, enumVars>>

\* ------------------------------------------------------ update_elements
\* the loop nest with the outer loop of line 358: a from A down to 1
ScanOrder_descending(AA, DD) ==
  [k \in 1..(AA * DD) |-> <<AA - ((k - 1) \div DD), 1 + ((k - 1) % DD)>>]

\* the loop nest of lines 357-359 as the sequence of cells it visits
ScanOrder(AA, DD) ==
  [k \in 1..(AA * DD) |-> <<1 + ((k - 1) \div DD), 1 + ((k - 1) % DD)>>]

\* data[idx]; an index outside the vector reads whatever lies there
Read(data, idx, g) == IF idx \in DOMAIN data THEN data[idx] ELSE g

Garbage == {unused_value, Zero, One}

\* lines 371-387 from transition n on: the value reached and the targets read
RECURSIVE TransLoop(_, _, _, _, _, _, _, _, _, _)
TransLoop(n, this_val, targets, aa, dd, AA, DD, data, row, g) ==
  IF n > Len(transitions)
  THEN [val |-> this_val, targets |-> targets]
  ELSE LET delta_a == transitions[n][1]
           delta_d == transitions[n][2]
           prob_qi == row[n]
       IN  IF ProbIsZero(prob_qi)
           THEN TransLoop(n + 1, this_val, targets, aa, dd, AA, DD, data, row, g)
           ELSE LET idx == linear_index(aa + delta_a, AA, dd + delta_d, DD)
                    tg  == Append(targets, [a |-> aa + delta_a,
                                            d |-> dd + delta_d,
                                            idx |-> idx])
                IN  IF RatEq(Read(data, idx, g), unused_value)
                    THEN [val |-> unused_value, targets |-> tg]
                    ELSE TransLoop(n + 1,
                                   RatAdd(this_val,
                                          RatMulProb(prob_qi, Read(data, idx, g))),
                                   tg, aa, dd, AA, DD, data, row, g)

\* lines 363-387 for one undetermined cell
ScanCell(aa, dd, AA, DD, data, tab, g) ==
  LET na == attacker_dice(aa)
      nd == defender_dice(dd)
      q  == MapIndex(dicetuples, <<na, nd>>)
      r  == TransLoop(1, Zero, <<>>, aa, dd, AA, DD, data, tab[q], g)
  IN  [val |-> r.val,
       reads |-> [skipped |-> FALSE, a |-> aa, d |-> dd, na |-> na, nd |-> nd,
                  targets |-> r.targets]]

\* line 474: update_elements is entered
UpdateCall ==
  /\ pc = "relax"
  /\ cell' = 1
  /\ num_updated' = 0
  /\ pc' = "scan"
  /\ UNCHANGED <<argc, argv, A, D, N, i, atk_win, num_atk_wins, P, elems_total,
                 passes, reads, out, status, simVars, enumVars, probstable>>

\* lines 359-394: one iteration of the inner loop
UpdateCell ==
  /\ pc = "scan"
  /\ cell <= Len(ScanOrder(A, D))
  /\ LET aa  == ScanOrder(A, D)[cell][1]
         dd  == ScanOrder(A, D)[cell][2]
         own == linear_index(aa, A, dd, D)
     IN  IF ~RatEq(P[own], unused_value)
         THEN /\ reads' = [NoReads EXCEPT !.a = aa, !.d = dd]
              /\ UNCHANGED <<P, num_updated>>
         ELSE \E g \in Garbage :
                LET r == ScanCell(aa, dd, A, D, P, probstable, g)
                IN  /\ reads' = r.reads
                    /\ IF RatGeqZero(r.val)
                       THEN /\ P' = [P EXCEPT ![own] = r.val]
                            /\ num_updated' = num_updated + 1
                       ELSE UNCHANGED <<P, num_updated>>
  /\ cell' = cell + 1
  /\ UNCHANGED <<pc, argc, argv, A, D, N, i, atk_win, num_atk_wins, elems_total,
                 passes, out, status, simVars, enumVars, probstable>>

\* lines 396, 481-485: update_elements returns num_updated
UpdateReturn ==
  /\ pc = "scan"
  /\ cell > Len(ScanOrder(A, D))
  /\ passes' = passes + 1
  /\ IF num_updated = 0
     THEN /\ pc' = "check"
          /\ UNCHANGED elems_total
     ELSE /\ pc' = "relax"
          /\ elems_total' = elems_total + num_updated
  /\ UNCHANGED <<argc, argv, A, D, N, i, atk_win, num_atk_wins, P, cell,
                 num_updated, reads, out, status, simVars, enumVars, probstable>>

\* lines 488-504
Finish ==
  /\ pc = "check"
  /\ IF elems_total # (A - 1) * D
     THEN Exit(1, "DP calculation failed")
     ELSE Exit(0, "grid")
  /\ UNCHANGED <<argc, argv, A, D, N, i, atk_win, num_atk_wins, P, cell,
                 num_updated, elems_total, passes, reads, simVars, enumVars,
                 probstable>>

\* main is entered with argc - 1 arguments; argv[n] is the int that strtol and
\* the cast of lines 409-418 make of argument n
Init ==
  /\ pc = "start"
  /\ argc \in 2..5
  /\ argv \in IF argc = 3 THEN (1..MaxA) \X (0..MaxD)
              ELSE IF argc = 4 THEN (1..MaxA) \X (0..MaxD) \X (-1..MaxN)
              ELSE {<<>>}
  /\ A = 0 /\ D = 0 /\ N = 0 /\ i = 0 /\ atk_win = 0 /\ num_atk_wins = 0
  /\ P = <<>> /\ cell = 0 /\ num_updated = 0 /\ elems_total = 0 /\ passes = 0
  /\ reads = NoReads /\ out = "none" /\ status = -1
  /\ probstable = <<>>
  /\ SimIdle
  /\ EnumIdle

Next ==
  \/ Usage
  \/ ParseArgs
  \/ RejectAD
  \/ StartSim
  \/ SimBattle
  \/ SimPrint
  \/ InitGrid
  \/ BuildTable
  \/ UpdateCall
  \/ UpdateCell
  \/ UpdateReturn
  \/ Finish

Spec == Init /\ [][Next]_vars

\* ====================================================== simulate_battle
\* line 95: called with a valid start, as main calls it
SimInit ==
  /\ pc = "battle"
  /\ A \in 2..MaxA /\ D \in 1..MaxD
  /\ a = A /\ d = D
  /\ MainIdle
  /\ EnumIdle
  /\ probstable = <<>>

\* lines 104-127: one iteration of the while loop, with the dice it rolls
Round ==
  /\ pc = "battle"
  /\ BattleContinues(a, d)
  /\ \E a_dice \in [1..attacker_dice(a) -> 1..S],
        d_dice \in [1..defender_dice(d) -> 1..S] :
       /\ a' = a + RoundDelta(a_dice, d_dice)[1]
       /\ d' = d + RoundDelta(a_dice, d_dice)[2]
  /\ UNCHANGED <<pc, mainVars, enumVars, probstable>>

\* line 129
BattleReturn ==
  /\ pc = "battle"
  /\ ~BattleContinues(a, d)
  /\ atk_win' = IF d = 0 THEN 1 ELSE 0
  /\ pc' = "returned"
  /\ UNCHANGED <<argc, argv, A, D, N, i, num_atk_wins, P, cell, num_updated,
                 elems_total, passes, reads, out, status, simVars, enumVars,
                 probstable>>

SimNext == Round \/ BattleReturn

\* the loop body always runs to its end and the loop test is always taken
SimSpec == SimInit /\ [][SimNext]_vars /\ WF_vars(SimNext)

\* ==================================================== create_prob_table
EnumInit ==
  /\ pc = "cpt_loop"
  /\ S \in 1..MaxSides
  /\ t = 1
  /\ dice = <<>> /\ counts = <<>> /\ O = 0 /\ last = <<>> /\ inc = <<>>
  /\ ok = "none"
  /\ probstable = <<>>
  /\ A = 0 /\ D = 0
  /\ MainIdle
  /\ SimIdle

\* lines 311-315, 139-157: calc_transitions is entered for dicetuples[t]
CalcCall ==
  /\ pc = "cpt_loop"
  /\ t <= Len(dicetuples)
  /\ IF S < 2
     THEN /\ ok' = FALSE
          /\ pc' = "cpt_done"
          /\ UNCHANGED <<dice, counts, O>>
     ELSE /\ counts' = ZeroCounts
          /\ O' = 0
          /\ dice' = [n \in 1..(dicetuples[t][1] + dicetuples[t][2]) |-> 1]
          /\ pc' = "enum"
          /\ UNCHANGED ok
  /\ last' = <<>>
  /\ inc' = <<>>
  /\ UNCHANGED <<S, t, mainVars, simVars, probstable>>

\* lines 162-283: the innermost loop body for the joint roll dice, or the
\* break out of the k loop
EnumStep ==
  /\ pc = "enum"
  /\ LET na == dicetuples[t][1]
         nd == dicetuples[t][2]
         brk == BreaksAt(na, nd, dice)
         nxt == IF brk THEN AfterBreak(dice, S) ELSE Incr(dice, S)
     IN  /\ IF brk
            THEN /\ inc' = <<>>
                 /\ UNCHANGED <<counts, O>>
            ELSE /\ inc' = TupleIncs(na, nd, dice)
                 /\ counts' = AddCounts(counts, TupleIncs(na, nd, dice))
                 /\ O' = O + 1
         /\ last' = dice
         /\ dice' = nxt
         /\ pc' = IF nxt = <<>> THEN "cpt_ret" ELSE "enum"
  /\ UNCHANGED <<S, t, ok, mainVars, simVars, probstable>>

\* lines 315-332: calc_transitions returned O
CalcReturn ==
  /\ pc = "cpt_ret"
  /\ LET r == TableRow([counts |-> counts, O |-> O])
     IN  /\ probstable' = IF O = 0 THEN probstable ELSE Append(probstable, r.row)
         /\ IF r.ok
            THEN /\ t' = t + 1
                 /\ pc' = "cpt_loop"
                 /\ UNCHANGED ok
            ELSE /\ ok' = FALSE
                 /\ pc' = "cpt_done"
                 /\ UNCHANGED t
  /\ UNCHANGED <<S, dice, counts, O, last, inc, mainVars, simVars>>

\* line 333
TableDone ==
  /\ pc = "cpt_loop"
  /\ ~(t <= Len(dicetuples))
  /\ ok' = TRUE
  /\ pc' = "cpt_done"
  /\ UNCHANGED <<S, t, dice, counts, O, last, inc, mainVars, simVars, probstable>>

EnumNext == CalcCall \/ EnumStep \/ CalcReturn \/ TableDone

EnumSpec == EnumInit /\ [][EnumNext]_vars

\* ================================================== the checked claims
Grid(aa, dd) == P[linear_index(aa, A, dd, D)]

GridSet == P # <<>>

\* C1: once the relaxation loop has stopped, the passes have resolved exactly
\* (A - 1) * D cells, "DP calculation failed" is never printed, and the grid
\* that is printed holds the sentinel nowhere.
C1_Complete ==
  /\ pc = "check" => elems_total = (A - 1) * D
  /\ out # "DP calculation failed"
  /\ out = "grid" => \A k \in DOMAIN P : ~RatEq(P[k], unused_value)

C1_Witness ==
  /\ pc = "exit" /\ out = "grid"
  /\ A = 4 /\ D = 3 /\ elems_total = 9

C3_Rejected ==
  (pc = "exit" /\ argc = 4 /\ argv[3] < 1) =>
    /\ status # 0
    /\ out \notin {"fraction", "grid"}

\* C4: in the printed grid the value at (a, 0) is 1 for every a in 1..A, and
\* the value at (a, d) is 0 for a in {0, 1} and every d in 1..D.
C4_HeaderBoundary ==
  out = "grid" =>
    /\ \A aa \in 1..A : RatEq(Grid(aa, 0), One)
    /\ \A aa \in {0, 1} : \A dd \in 1..D : RatEq(Grid(aa, dd), Zero)

\* C7: in the printed grid, every column is non-decreasing in a and every row
\* is non-increasing in d.
C7_Monotone ==
  out = "grid" =>
    /\ \A dd \in 0..D : \A aa \in 0..(A - 1) :
         RatLeq(Grid(aa, dd), Grid(aa + 1, dd))
    /\ \A aa \in 0..A : \A dd \in 0..(D - 1) :
         RatLeq(Grid(aa, dd + 1), Grid(aa, dd))

C7_Witness ==
  /\ out = "grid" /\ A = 4 /\ D = 3
  /\ RatLess(Grid(3, 3), Grid(4, 3))
  /\ RatLess(Grid(4, 3), Grid(4, 2))

\* C9: the first pass resolves all (A - 1) * D cells, the second resolves
\* none, and the loop ends after exactly these two passes.
C9_TwoPasses ==
  /\ (pc \in {"relax", "scan", "check"} /\ passes >= 1) =>
       elems_total = (A - 1) * D
  /\ (pc = "scan" /\ passes >= 1) => num_updated = 0
  /\ (pc = "check" \/ out \in {"grid", "DP calculation failed"}) => passes = 2

C9_Witness ==
  /\ pc = "check" /\ passes = 2
  /\ A = 5 /\ D = 4 /\ elems_total = 16

\* C10: every cell a pass computes has one of the six tabulated dice pairs,
\* and every target it looks up lies in [0..A] x [0..D], at a linear index
\* inside the grid.
C10_InBounds ==
  ~reads.skipped =>
    /\ reads.a \in 2..A /\ reads.d \in 1..D
    /\ <<reads.na, reads.nd>> \in {dicetuples[x] : x \in 1..Len(dicetuples)}
    /\ \A n \in 1..Len(reads.targets) :
         /\ reads.targets[n].a \in 0..A
         /\ reads.targets[n].d \in 0..D
         /\ reads.targets[n].idx \in 0..((A + 1) * (D + 1) - 1)

C10_Witness ==
  /\ ~reads.skipped
  /\ reads.na = 3 /\ reads.nd = 2
  /\ Len(reads.targets) = 3

\* C5: calc_transitions returns S^(na + nd), every joint roll increments
\* exactly one counter (so break never leaves a roll out), the counts add up
\* to the returned denominator, and create_prob_table returns true with six
\* rows that each sum to 1.
C5_Counts ==
  /\ pc = "cpt_ret" =>
       /\ O = Pow(S, dicetuples[t][1] + dicetuples[t][2])
       /\ SumSeq(counts) = O
  /\ (pc \in {"enum", "cpt_ret"} /\ last # <<>>) => Len(inc) = 1
  /\ (pc = "cpt_done" /\ S >= 2) =>
       /\ ok = TRUE
       /\ Len(probstable) = Len(dicetuples)
       /\ \A x \in 1..Len(probstable) :
            /\ \A q \in 1..Len(transitions) :
                 probstable[x][q].den = probstable[x][1].den
            /\ probstable[x][1].den > 0
            /\ SumSeq([q \in 1..Len(transitions) |-> probstable[x][q].num])
                 = probstable[x][1].den

C5_Witness ==
  /\ pc = "cpt_ret" /\ t = 6 /\ S = uniform_dice_sides
  /\ O = Pow(6, 5)

\* C8: the counter a joint roll increments in calc_transitions is the one for
\* the delta that simulate_battle's round gives on the same dice.
C8_SameRule ==
  (pc \in {"enum", "cpt_ret"} /\ last # <<>>) =>
    inc = << RoundDelta(SubSeq(last, 1, dicetuples[t][1]),
                        SubSeq(last, dicetuples[t][1] + 1, Len(last))) >>

\* attacker 6, 5, 1 against defender 5, 4: the median decides the second
\* comparison
C8_Witness ==
  /\ t = 6
  /\ last = <<6, 1, 5, 5, 4>>
  /\ inc = << <<0, -2>> >>

\* C6: every round removes min(na, nd) >= 1 units, the loop ends, it ends
\* with d = 0 or a <= 1, and 1 is returned exactly when d = 0.
C6_Battle ==
  /\ [][(pc = "battle" /\ pc' = "battle") =>
          /\ Min(attacker_dice(a), defender_dice(d)) >= 1
          /\ a' + d' = a + d - Min(attacker_dice(a), defender_dice(d))]_vars
  /\ [](pc = "returned" =>
          /\ d = 0 \/ a <= 1
          /\ ~(a > 1 /\ d > 0)
          /\ atk_win = 1 <=> d = 0)
  /\ <>(pc = "returned")

C6_Witness ==
  /\ pc = "returned" /\ A = 4 /\ D = 3
  /\ a = 2 /\ d = 0 /\ atk_win = 1

====
